---- MODULE Spec2Model ----
\* NOVA-MD Telegram front-end (src/bot.py): the command router of
\* NovaMDTelegramBot (handle_message and the handlers it dispatches to, the
\* slash commands) and the webhook bridge HTTPBridge, as one state machine.
\*
\* A text is a sequence of code points: an ASCII character is written as
\* itself, any other code point as "U+XXXX".  One inbound event (a text
\* message, a slash command, a bridge request) is handled by one action; the
\* variables calls, replies, path, raised, sends and http record what the
\* handler of the latest event did.
EXTENDS Integers, Sequences, FiniteSets, TLC

VARIABLES
    user_data,   \* context.user_data of every chat: the pending-input flags
    event,       \* the inbound event handled last
    path,        \* the handlers that ran for it, in call order
    calls,       \* the backend HTTP calls made for it, in order
    replies,     \* the chat replies sent for it, in order
    raised,      \* TRUE when its handler ended with an exception it did not catch
    sends,       \* the chat-delivery attempts a bridge request made, in order
    http,        \* the HTTP response the bridge returned
    granted,     \* history: the chats an access check has answered hasAccess=true
    boot,        \* how far run() has got, and what start-up has achieved
    inflight,    \* the phone processor suspended on its backend call, if any
    delivered    \* per chat, the messages of a pairing flow followed step by
                 \* step that reached the chat, in order

vars == << user_data, event, path, calls, replies, raised, sends, http, granted,
           boot, inflight, delivered >>

-----------------------------------------------------------------------------
\* Bounds of the model.

\* most leading spaces put before a typed access code
MaxPad == 1
\* longest tail after NOVA- in a typed access code
MaxBody == 8

-----------------------------------------------------------------------------
\* Configuration.

\* the chats talking to the bot (private chats: chat id = user id)
Chats == {1, 2}
\* ADMIN_IDS, the allow-list read from TELEGRAM_ADMIN_IDS
ADMIN_IDS == {1}

-----------------------------------------------------------------------------
\* Button captions compared by handle_message and handle_whatsapp_settings.

\* 755: text == <BtnUtiliserCode>  (non-ASCII code points written U+XXXX)
BtnUtiliserCode ==
    << "U+1F511", " ", "U", "t", "i", "l", "i", "s", "e", "r", " ", "C", "o", "d", "e" >>
\* 757: text == <BtnSAbonner>  (non-ASCII code points written U+XXXX)
BtnSAbonner ==
    << "U+1F48E", " ", "S", "'", "a", "b", "o", "n", "n", "e", "r" >>
\* 759: text == <BtnConnecterWhatsApp>  (non-ASCII code points written U+XXXX)
BtnConnecterWhatsApp ==
    << "U+1F517", " ", "C", "o", "n", "n", "e", "c", "t", "e", "r", " ", "W", "h", "a", "t", "s", "A", "p", "p" >>
\* 761: text == <BtnStatut>  (non-ASCII code points written U+XXXX)
BtnStatut ==
    << "U+1F4CA", " ", "S", "t", "a", "t", "u", "t" >>
\* 763: text == <BtnAide>  (non-ASCII code points written U+XXXX)
BtnAide ==
    << "U+1F198", " ", "A", "i", "d", "e" >>
\* 765: text == <BtnMenuPrincipal>  (non-ASCII code points written U+XXXX)
BtnMenuPrincipal ==
    << "U+1F4F1", " ", "M", "e", "n", "u", " ", "P", "r", "i", "n", "c", "i", "p", "a", "l" >>
\* 767: text == <BtnParametresWhatsApp>  (non-ASCII code points written U+XXXX)
BtnParametresWhatsApp ==
    << "U+2699", "U+FE0F", " ", "P", "a", "r", "a", "m", "U+00E8", "t", "r", "e", "s", " ", "W", "h", "a", "t", "s", "A", "p", "p" >>
\* 769: text == <BtnQRCode>  (non-ASCII code points written U+XXXX)
BtnQRCode ==
    << "U+1F4F1", " ", "Q", "R", " ", "C", "o", "d", "e" >>
\* 771: text == <BtnPairingCode>  (non-ASCII code points written U+XXXX)
BtnPairingCode ==
    << "U+1F522", " ", "P", "a", "i", "r", "i", "n", "g", " ", "C", "o", "d", "e" >>
\* 773: text == <BtnEssaiGratuit>  (non-ASCII code points written U+XXXX)
BtnEssaiGratuit ==
    << "U+1F3AF", " ", "E", "s", "s", "a", "i", " ", "2", "4", "h", " ", "G", "r", "a", "t", "u", "i", "t" >>
\* 775: text == <BtnAcheterPremium>  (non-ASCII code points written U+XXXX)
BtnAcheterPremium ==
    << "U+1F48E", " ", "A", "c", "h", "e", "t", "e", "r", " ", "P", "r", "e", "m", "i", "u", "m" >>
\* 783: text == <BtnGenererCode>  (non-ASCII code points written U+XXXX)
BtnGenererCode ==
    << "U+1F511", " ", "G", "U+00E9", "n", "U+00E9", "r", "e", "r", " ", "C", "o", "d", "e" >>
\* 797: text == <BtnStatistiques>  (non-ASCII code points written U+XXXX)
BtnStatistiques ==
    << "U+1F4CA", " ", "S", "t", "a", "t", "i", "s", "t", "i", "q", "u", "e", "s" >>
\* 799: text == <BtnMiseAJour>  (non-ASCII code points written U+XXXX)
BtnMiseAJour ==
    << "U+1F504", " ", "M", "i", "s", "e", " ", "U+00E0", " ", "J", "o", "u", "r" >>
\* 801: text == <BtnCommandes>  (non-ASCII code points written U+XXXX)
BtnCommandes ==
    << "U+2699", "U+FE0F", " ", "C", "o", "m", "m", "a", "n", "d", "e", "s" >>
\* 803: text == <BtnUtilisateurs>  (non-ASCII code points written U+XXXX)
BtnUtilisateurs ==
    << "U+1F465", " ", "U", "t", "i", "l", "i", "s", "a", "t", "e", "u", "r", "s" >>
\* 807: text == <BtnActiverSilencieux>  (non-ASCII code points written U+XXXX)
BtnActiverSilencieux ==
    << "U+1F507", " ", "A", "c", "t", "i", "v", "e", "r", " ", "M", "o", "d", "e", " ", "S", "i", "l", "e", "n", "c", "i", "e", "u", "x" >>
\* 809: text == <BtnDesactiverSilencieux>  (non-ASCII code points written U+XXXX)
BtnDesactiverSilencieux ==
    << "U+1F50A", " ", "D", "U+00E9", "s", "a", "c", "t", "i", "v", "e", "r", " ", "M", "o", "d", "e", " ", "S", "i", "l", "e", "n", "c", "i", "e", "u", "x" >>
\* 811: text == <BtnActiverPrive>  (non-ASCII code points written U+XXXX)
BtnActiverPrive ==
    << "U+1F512", " ", "A", "c", "t", "i", "v", "e", "r", " ", "M", "o", "d", "e", " ", "P", "r", "i", "v", "U+00E9" >>
\* 813: text == <BtnDesactiverPrive>  (non-ASCII code points written U+XXXX)
BtnDesactiverPrive ==
    << "U+1F513", " ", "D", "U+00E9", "s", "a", "c", "t", "i", "v", "e", "r", " ", "M", "o", "d", "e", " ", "P", "r", "i", "v", "U+00E9" >>
\* 815: text == <BtnGererAcces>  (non-ASCII code points written U+XXXX)
BtnGererAcces ==
    << "U+1F465", " ", "G", "U+00E9", "r", "e", "r", " ", "A", "c", "c", "U+00E8", "s" >>

UserCaptions ==
    { BtnUtiliserCode, BtnSAbonner, BtnConnecterWhatsApp, BtnStatut, BtnAide,
      BtnMenuPrincipal, BtnParametresWhatsApp, BtnQRCode, BtnPairingCode,
      BtnEssaiGratuit, BtnAcheterPremium }

AdminCaptions ==
    { BtnGenererCode, BtnStatistiques, BtnMiseAJour, BtnCommandes, BtnUtilisateurs }

SettingsCaptions ==
    { BtnActiverSilencieux, BtnDesactiverSilencieux, BtnActiverPrive,
      BtnDesactiverPrive, BtnGererAcces }

-----------------------------------------------------------------------------
\* Python string operations used by the two processors.

LowerLetters ==
    << "a", "b", "c", "d", "e", "f", "g", "h", "i", "j", "k", "l", "m",
       "n", "o", "p", "q", "r", "s", "t", "u", "v", "w", "x", "y", "z" >>

UpperLetters ==
    << "A", "B", "C", "D", "E", "F", "G", "H", "I", "J", "K", "L", "M",
       "N", "O", "P", "Q", "R", "S", "T", "U", "V", "W", "X", "Y", "Z" >>

AsciiDigits == { "0", "1", "2", "3", "4", "5", "6", "7", "8", "9" }

Range(s) == { s[i] : i \in DOMAIN s }

\* str.upper() of one code point: a-z to A-Z, U+00E0/E8/E9 (a-grave, e-grave,
\* e-acute) to their capitals, U+00DF (sharp s) to "SS", U+017F (long s) to
\* "S"; every other code point of the model has no upper-case mapping.
UpperChar(c) ==
    IF c \in Range(LowerLetters)
    THEN << UpperLetters[CHOOSE i \in DOMAIN LowerLetters : LowerLetters[i] = c] >>
    ELSE CASE c = "U+00E0" -> << "U+00C0" >>
           [] c = "U+00E8" -> << "U+00C8" >>
           [] c = "U+00E9" -> << "U+00C9" >>
           [] c = "U+00DF" -> << "S", "S" >>
           [] c = "U+017F" -> << "S" >>
           [] OTHER -> << c >>

RECURSIVE upper(_)
upper(s) == IF s = << >> THEN << >> ELSE UpperChar(Head(s)) \o upper(Tail(s))

\* the code points str.strip() removes from both ends
Whitespace == { " ", "\n", "\t" }

RECURSIVE lstrip(_)
lstrip(s) ==
    IF s # << >> /\ Head(s) \in Whitespace THEN lstrip(Tail(s)) ELSE s

RECURSIVE rstrip(_)
rstrip(s) ==
    IF s # << >> /\ s[Len(s)] \in Whitespace
    THEN rstrip(SubSeq(s, 1, Len(s) - 1))
    ELSE s

strip(s) == rstrip(lstrip(s))

\* str.replace(c, '') for a one-character c
replace(s, c) == SelectSeq(s, LAMBDA x : x # c)

\* the code points str.isdigit() accepts: Unicode Numeric_Type Decimal or
\* Digit, which beside 0-9 holds e.g. U+00B2 (superscript two) and U+0663
\* (Arabic-Indic three)
DigitChars == AsciiDigits \cup { "U+00B2", "U+0663" }

isdigit(s) == s # << >> /\ \A i \in DOMAIN s : s[i] \in DigitChars

\* number of characters [A-Z0-9] the access-code pattern asks for after NOVA-
CodeBodyLen == 7

CodePrefix == << "N", "O", "V", "A", "-" >>

\* the pattern without its closing $: a longer code would pass
re_match_code_unanchored(code) ==
    /\ Len(code) >= Len(CodePrefix) + CodeBodyLen
    /\ SubSeq(code, 1, Len(CodePrefix)) = CodePrefix
    /\ \A i \in (Len(CodePrefix) + 1)..(Len(CodePrefix) + CodeBodyLen) :
          code[i] \in Range(UpperLetters) \cup AsciiDigits

\* re.match(r'^NOVA-[A-Z0-9]{7}$', code): the literal prefix, then exactly
\* seven characters of the class, then $ which matches at the end of the
\* string or before a final newline
re_match_code(code) ==
    LET p == Len(CodePrefix)
        e == p + CodeBodyLen
    IN  /\ Len(code) >= e
        /\ SubSeq(code, 1, p) = CodePrefix
        /\ \A i \in (p + 1)..e :
              code[i] \in Range(UpperLetters) \cup AsciiDigits
        /\ \/ Len(code) = e
           \/ Len(code) = e + 1 /\ code[e + 1] = "\n"

-----------------------------------------------------------------------------
\* Backend answers.  An outbound call either raises inside the API method
\* (backend unreachable, body that is not JSON) or yields the parsed JSON
\* object, whatever the HTTP status; a JSON object is a function from field
\* names to values.

Exc == [exc |-> TRUE]
Json(d) == [exc |-> FALSE, json |-> d]

\* dict.get(k, default)
Get(d, k, default) == IF k \in DOMAIN d THEN d[k] ELSE default

\* the empty JSON object
EmptyObject == [k \in {} |-> TRUE]

\* a JSON array
Array(items) == [array |-> items]

is_object(v) == "array" \notin DOMAIN v

ValidateAnswers ==
    { Exc,
      Json([valid |-> TRUE, plan |-> "monthly", duration |-> 30,
            expiresAt |-> "2025-01-01T00:00:00Z"]),
      Json([valid |-> TRUE]),
      Json([valid |-> FALSE, reason |-> "Code deja utilise"]),
      Json([valid |-> FALSE]) }

AccessAnswers ==
    { Exc,
      Json([plan |-> "monthly", hasAccess |-> TRUE, daysLeft |-> 12,
            endDate |-> "01/01/2025"]),
      Json([hasAccess |-> FALSE]),
      Json([error |-> "Not found"]) }

SessionAnswers ==
    { Exc,
      Json([status |-> "connected", created_at |-> "2024-12-01T00:00:00Z"]),
      Json([status |-> "disconnected"]),
      Json(EmptyObject) }

CreateAnswers ==
    { Exc,
      Json([success |-> TRUE, qr_code |-> "2@payload"]),
      Json([success |-> TRUE]),
      Json([error |-> "Limite atteinte", success |-> FALSE]) }

PhoneAnswers ==
    { Exc,
      Json([success |-> TRUE]),
      Json([error |-> "Numero refuse", success |-> FALSE]),
      Json([success |-> FALSE]),
      Json(Array(<< "busy" >>)) }

SettingsAnswers == { Exc, Json([silent_mode |-> TRUE, private_mode |-> FALSE]) }

UpdateAnswers ==
    { Exc, Json([success |-> TRUE]), Json([success |-> FALSE]) }

GenerateAnswers ==
    { Exc,
      Json([code |-> "NOVA-AB12CD3", duration |-> 30, expiresAt |-> "2025-01-01T00:00:00",
            success |-> TRUE]),
      Json([code |-> "NOVA-AB12CD3", success |-> TRUE]),
      Json([success |-> FALSE]) }

RegisterAnswers == { Exc, Json([success |-> TRUE]) }

StatsAnswers == { Exc, Json([activeSubs |-> 3]), Json(EmptyObject) }

CommandsAnswers == { Exc, Json([total |-> 4]), Json(EmptyObject) }

\* /api/users/active answers a JSON array
UsersAnswers ==
    { Exc, Json(Array(<< [first_name |-> "Ada", chat_id |-> 2] >>)), Json(Array(<< >>)) }

\* the value an API method returns: the JSON answer, or the substitute its
\* except branch returns
returned(answer, substitute) == IF answer.exc THEN substitute ELSE answer.json

\* None, returned by the API methods that swallow the exception
None == [none |-> TRUE]

validate_access_code(answer) ==
    returned(answer, [valid |-> FALSE, reason |-> "Erreur systeme"])

\* an access check that grants access when the backend cannot be reached
check_user_access_fail_open(answer) ==
    returned(answer, [reason |-> "Erreur systeme", hasAccess |-> TRUE])

check_user_access(answer) ==
    returned(answer, [reason |-> "Erreur systeme", hasAccess |-> FALSE])

register_user(answer) == returned(answer, None)
generate_access_code(answer) == returned(answer, None)
get_system_stats(answer) == returned(answer, None)
create_whatsapp_session(answer) == returned(answer, None)
create_whatsapp_session_with_phone(answer) == returned(answer, None)
get_user_session(answer) == returned(answer, None)
get_commands_info(answer) == returned(answer, None)
get_active_users(answer) == returned(answer, Array(<< >>))

get_whatsapp_settings(answer) ==
    returned(answer, [silent_mode |-> FALSE, private_mode |-> FALSE])

update_whatsapp_settings(answer) ==
    returned(answer, [error |-> "exception", success |-> FALSE])

\* Python truth value of what an API method returned
truthy(v) ==
    /\ v # None
    /\ DOMAIN v # {}
    /\ "array" \in DOMAIN v => v.array # << >>

-----------------------------------------------------------------------------
\* What a handler did: the flags it leaves, the backend calls it made, the
\* replies it sent, and whether it ended by raising.

\* a backend call: the operation, the chat it is made for, what is sent,
\* whether the call raised inside the API method, and what the method returned
Call(op, chat, arg, answer, ret) ==
    [exc |-> answer.exc, op |-> op, chat |-> chat, arg |-> arg, ret |-> ret]
Reply(tpl, arg) == [arg |-> arg, tpl |-> tpl]

NoArg == ""

Ret(ud, c, r) == [path |-> << >>, calls |-> c, replies |-> r, raised |-> FALSE, ud |-> ud]
Raise(ud, c, r) == [path |-> << >>, calls |-> c, replies |-> r, raised |-> TRUE, ud |-> ud]

\* handler h ran and did res
In(h, res) == [res EXCEPT !.path = << h >> \o @]

\* context.user_data of a chat that has not talked yet: .get() of an absent
\* key is falsy
NoFlags ==
    [waiting_for_code |-> FALSE, waiting_for_phone |-> FALSE, pending_pairing |-> FALSE]

-----------------------------------------------------------------------------
\* The handlers of NovaMDTelegramBot.  ud is context.user_data of the sending
\* chat, env the answers the backend gives to the calls of this event.

start(ud, chat, env) ==
    Ret(ud, << Call("users/register", chat, NoArg, env.register, register_user(env.register)) >>,
        << Reply("welcome", NoArg) >>)

show_main_menu(ud, chat) ==
    IF chat \in ADMIN_IDS
    THEN Ret(ud, << >>, << Reply("menu_admin_keyboard", NoArg) >>)
    ELSE Ret(ud, << >>, << Reply("menu_main_keyboard", NoArg) >>)

use_code(ud) ==
    Ret([ud EXCEPT !.waiting_for_code = TRUE], << >>, << Reply("code_prompt", NoArg) >>)

subscribe_info(ud) == Ret(ud, << >>, << Reply("subscribe_info", NoArg) >>)

\* a help handler that sends its text twice
help_twice(ud) == Ret(ud, << >>, << Reply("help", NoArg), Reply("help", NoArg) >>)

help(ud) == Ret(ud, << >>, << Reply("help", NoArg) >>)

connect_options(ud, chat, env) ==
    LET access == check_user_access(env.access)
        c == << Call("auth/access", chat, NoArg, env.access, access) >>
    IN  IF "hasAccess" \notin DOMAIN access
        THEN Raise(ud, c, << >>)
        ELSE IF ~access.hasAccess
        THEN Ret(ud, c, << Reply("trial_or_premium", NoArg) >>)
        ELSE Ret(ud, c, << Reply("choose_qr_or_pairing", NoArg) >>)

ask_phone_number(ud) ==
    Ret([ud EXCEPT !.waiting_for_phone = TRUE, !.pending_pairing = TRUE],
        << >>, << Reply("phone_prompt", NoArg) >>)

start_trial_session(ud, chat, env) ==
    LET c == << Call("sessions/create", chat, [method |-> "qr", persistent |-> FALSE],
                     env.create, IF env.create.exc THEN None ELSE env.create.json) >>
        r == << Reply("trial_starting", NoArg) >>
    IN  IF env.create.exc
        THEN Ret(ud, c, r \o << Reply("server_not_responding", NoArg) >>)
        ELSE IF Get(env.create.json, "success", FALSE)
        THEN Ret(ud, c, r \o << Reply("trial_activated", NoArg) >>)
        ELSE Ret(ud, c, r \o << Reply("trial_failed",
                                      Get(env.create.json, "error", "Erreur inconnue")) >>)

\* a QR connect that creates the session without looking for an existing one
connect_whatsapp_qr_without_lookup(ud, chat, env) ==
    LET access_check == check_user_access(env.access)
        c1 == << Call("auth/access", chat, NoArg, env.access, access_check) >>
        session_data == create_whatsapp_session(env.create)
        c3 == c1 \o << Call("sessions/create", chat, [method |-> "qr", persistent |-> TRUE],
                             env.create, session_data) >>
        r3 == << Reply("qr_generating", NoArg) >>
    IN  IF "hasAccess" \notin DOMAIN access_check
        THEN Raise(ud, c1, << >>)
        ELSE IF ~access_check.hasAccess
        THEN Ret(ud, c1, << Reply("access_denied", NoArg) >>)
        ELSE IF truthy(session_data) /\ "qr_code" \in DOMAIN session_data
        THEN Ret(ud, c3, r3 \o << Reply("qr_instructions", NoArg),
                                  Reply("qr_photo", session_data.qr_code) >>)
        ELSE Ret(ud, c3, r3 \o << Reply("session_create_error", NoArg) >>)

connect_whatsapp_qr(ud, chat, env) ==
    LET access_check == check_user_access(env.access)
        c1 == << Call("auth/access", chat, NoArg, env.access, access_check) >>
        existing_session == get_user_session(env.session)
        c2 == c1 \o << Call("sessions/user", chat, NoArg, env.session, get_user_session(env.session)) >>
        session_data == create_whatsapp_session(env.create)
        c3 == c2 \o << Call("sessions/create", chat, [method |-> "qr", persistent |-> TRUE],
                             env.create, session_data) >>
        r3 == << Reply("qr_generating", NoArg) >>
    IN  IF "hasAccess" \notin DOMAIN access_check
        THEN Raise(ud, c1, << >>)
        ELSE IF ~access_check.hasAccess
        THEN Ret(ud, c1, << Reply("access_denied", NoArg) >>)
        ELSE IF truthy(existing_session)
                /\ Get(existing_session, "status", "") = "connected"
        THEN Ret(ud, c2, << Reply("session_already_active", NoArg) >>)
        ELSE IF truthy(session_data) /\ "qr_code" \in DOMAIN session_data
        THEN Ret(ud, c3, r3 \o << Reply("qr_instructions", NoArg),
                                  Reply("qr_photo", session_data.qr_code) >>)
        ELSE Ret(ud, c3, r3 \o << Reply("session_create_error", NoArg) >>)

\* a pairing connect that asks for the phone number whatever the access check
\* answered
connect_whatsapp_pairing_unchecked(ud, chat, env) ==
    LET access_check == check_user_access(env.access)
        c == << Call("auth/access", chat, NoArg, env.access, access_check) >>
        asked == In("ask_phone_number", ask_phone_number(ud))
    IN  [asked EXCEPT !.calls = c \o @]

connect_whatsapp_pairing(ud, chat, env) ==
    LET access_check == check_user_access(env.access)
        c == << Call("auth/access", chat, NoArg, env.access, access_check) >>
        asked == In("ask_phone_number", ask_phone_number(ud))
    IN  IF "hasAccess" \notin DOMAIN access_check
        THEN Raise(ud, c, << >>)
        ELSE IF ~access_check.hasAccess
        THEN Ret(ud, c, << Reply("access_denied", NoArg) >>)
        ELSE [asked EXCEPT !.calls = c \o @]

\* the three replace() calls of process_phone_number
clean_phone(phone_input) == replace(replace(replace(phone_input, "+"), " "), "-")

\* fewest and most digits of a phone number
PhoneMinLen == 8
PhoneMaxLen == 15

phone_invalid(phone_number) ==
    ~isdigit(phone_number) \/ Len(phone_number) < PhoneMinLen
                           \/ Len(phone_number) > PhoneMaxLen

\* a phone processor that resets its flags when it rejects the number too
process_phone_number_resets_on_reject(ud, chat, text, env) ==
    LET phone_input == strip(text)
        phone_number == clean_phone(phone_input)
        c == << Call("sessions/create-with-phone", chat, phone_number,
                     env.phone, create_whatsapp_session_with_phone(env.phone)) >>
        r == << Reply("pairing_generating", NoArg) >>
        session_data == create_whatsapp_session_with_phone(env.phone)
        reset == [ud EXCEPT !.waiting_for_phone = FALSE, !.pending_pairing = FALSE]
    IN  IF phone_invalid(phone_number)
        THEN Ret(reset, << >>, << Reply("phone_invalid", NoArg) >>)
        ELSE IF truthy(session_data) /\ ~is_object(session_data)
        THEN Ret(reset, c, r \o << Reply("server_not_responding", NoArg) >>)
        ELSE IF truthy(session_data) /\ Get(session_data, "success", FALSE)
        THEN Ret(reset, c, r \o << Reply("pairing_code_coming", NoArg) >>)
        ELSE Ret(reset, c, r \o << Reply("pairing_error",
                 IF truthy(session_data)
                 THEN Get(session_data, "error", "Erreur inconnue")
                 ELSE "Pas de reponse du serveur") >>)

process_phone_number(ud, chat, text, env) ==
    LET phone_input == strip(text)
        phone_number == clean_phone(phone_input)
        c == << Call("sessions/create-with-phone", chat, phone_number,
                     env.phone, create_whatsapp_session_with_phone(env.phone)) >>
        r == << Reply("pairing_generating", NoArg) >>
        session_data == create_whatsapp_session_with_phone(env.phone)
        reset == [ud EXCEPT !.waiting_for_phone = FALSE, !.pending_pairing = FALSE]
    IN  IF phone_invalid(phone_number)
        THEN Ret(ud, << >>, << Reply("phone_invalid", NoArg) >>)
        ELSE IF truthy(session_data) /\ ~is_object(session_data)
        THEN \* .get() of a list raises inside the try: the except branch
             Ret(reset, c, r \o << Reply("server_not_responding", NoArg) >>)
        ELSE IF truthy(session_data) /\ Get(session_data, "success", FALSE)
        THEN Ret(reset, c, r \o << Reply("pairing_code_coming", NoArg) >>)
        ELSE Ret(reset, c, r \o << Reply("pairing_error",
                 IF truthy(session_data)
                 THEN Get(session_data, "error", "Erreur inconnue")
                 ELSE "Pas de reponse du serveur") >>)

\* a code processor that clears the flag only when the code is accepted
process_access_code_keeps_flag(ud, chat, text, env) ==
    LET code == upper(strip(text))
        c == << Call("auth/validate-code", chat, code,
                     env.validate, validate_access_code(env.validate)) >>
        r == << Reply("code_validating", NoArg) >>
        validation_result == validate_access_code(env.validate)
    IN  IF ~re_match_code(code)
        THEN Ret(ud, << >>, << Reply("code_format_error", NoArg) >>)
        ELSE IF Get(validation_result, "valid", FALSE)
        THEN Ret([ud EXCEPT !.waiting_for_code = FALSE], c,
                 r \o << Reply("code_accepted", Get(validation_result, "plan", "monthly")) >>)
        ELSE Ret(ud, c, r \o << Reply("code_invalid",
                                     Get(validation_result, "reason", "Erreur inconnue")) >>)

process_access_code(ud, chat, text, env) ==
    LET code == upper(strip(text))
        c == << Call("auth/validate-code", chat, code,
                     env.validate, validate_access_code(env.validate)) >>
        r == << Reply("code_validating", NoArg) >>
        validation_result == validate_access_code(env.validate)
        cleared == [ud EXCEPT !.waiting_for_code = FALSE]
    IN  IF ~re_match_code(code)
        THEN Ret(ud, << >>, << Reply("code_format_error", NoArg) >>)
        ELSE IF Get(validation_result, "valid", FALSE)
        THEN Ret(cleared, c, r \o << Reply("code_accepted",
                                         Get(validation_result, "plan", "monthly")) >>)
        ELSE Ret(cleared, c, r \o << Reply("code_invalid",
                                         Get(validation_result, "reason", "Erreur inconnue")) >>)

admin_denied(ud) == Ret(ud, << >>, << Reply("admin_only", NoArg) >>)

admin_panel(ud, chat) ==
    IF chat \notin ADMIN_IDS
    THEN admin_denied(ud)
    ELSE Ret(ud, << >>, << Reply("admin_panel", NoArg) >>)

generate_code(ud, chat, env) ==
    LET code_result == generate_access_code(env.generate)
        c == << Call("admin/generate-code", chat, [plan |-> "monthly"],
                     env.generate, code_result) >>
        r == << Reply("code_generating", NoArg) >>
    IN  IF chat \notin ADMIN_IDS
        THEN admin_denied(ud)
        ELSE IF truthy(code_result) /\ Get(code_result, "success", FALSE)
        THEN IF { "code", "duration", "expiresAt" } \subseteq DOMAIN code_result
             THEN Ret(ud, c, r \o << Reply("code_generated", code_result.code) >>)
             ELSE Raise(ud, c, r)
        ELSE Ret(ud, c, r \o << Reply("code_generation_error", NoArg) >>)

\* /stats without the allow-list test
stats_ungated(ud, chat, env) ==
    IF truthy(get_system_stats(env.stats))
    THEN Ret(ud, << Call("admin/stats", chat, NoArg, env.stats, get_system_stats(env.stats)) >>,
             << Reply("stats", NoArg) >>)
    ELSE Ret(ud, << Call("admin/stats", chat, NoArg, env.stats, get_system_stats(env.stats)) >>,
             << Reply("stats_error", NoArg) >>)

stats(ud, chat, env) ==
    LET stats_data == get_system_stats(env.stats)
        c == << Call("admin/stats", chat, NoArg, env.stats, stats_data) >>
    IN  IF chat \notin ADMIN_IDS
        THEN admin_denied(ud)
        ELSE IF truthy(stats_data)
        THEN Ret(ud, c, << Reply("stats", NoArg) >>)
        ELSE Ret(ud, c, << Reply("stats_error", NoArg) >>)

upgrade_bot(ud, chat) ==
    IF chat \notin ADMIN_IDS
    THEN admin_denied(ud)
    ELSE Ret(ud, << >>, << Reply("checking_updates", NoArg) >>)

manage_commands(ud, chat, env) ==
    LET commands_info == get_commands_info(env.commands)
        c == << Call("commands/info", chat, NoArg, env.commands, commands_info) >>
    IN  IF chat \notin ADMIN_IDS
        THEN admin_denied(ud)
        ELSE IF truthy(commands_info)
        THEN Ret(ud, c, << Reply("commands_info", NoArg) >>)
        ELSE Ret(ud, c, << Reply("commands_error", NoArg) >>)

status(ud, chat, env) ==
    LET access_check == check_user_access(env.access)
        c1 == << Call("auth/access", chat, NoArg, env.access, access_check) >>
        c2 == c1 \o << Call("sessions/user", chat, NoArg, env.session, get_user_session(env.session)) >>
    IN  IF "hasAccess" \notin DOMAIN access_check
        THEN Raise(ud, c1, << >>)
        ELSE IF access_check.hasAccess
        THEN Ret(ud, c2, << Reply("status_premium", NoArg) >>)
        ELSE Ret(ud, c1, << Reply("status_no_access", NoArg) >>)

whatsapp_settings(ud, chat, env) ==
    LET access_check == check_user_access(env.access)
        c1 == << Call("auth/access", chat, NoArg, env.access, access_check) >>
        c2 == c1 \o << Call("GET whatsapp-settings", chat, NoArg,
                             env.settings, get_whatsapp_settings(env.settings)) >>
    IN  IF "hasAccess" \notin DOMAIN access_check
        THEN Raise(ud, c1, << >>)
        ELSE IF ~access_check.hasAccess
        THEN Ret(ud, c1, << Reply("access_required", NoArg) >>)
        ELSE Ret(ud, c2, << Reply("settings_screen", NoArg) >>)

\* a toggle that repeats the settings-update call after a failure
toggle_with_retry(ud, chat, env, payload, okReply, errReply) ==
    LET result == update_whatsapp_settings(env.update)
        c == << Call("POST whatsapp-settings", chat, payload, env.update, result) >>
    IN  IF Get(result, "success", FALSE)
        THEN Ret(ud, c, << Reply(okReply, NoArg) >>)
        ELSE Ret(ud, c \o c, << Reply(errReply, NoArg) >>)

\* one toggle of handle_whatsapp_settings: a settings-update call with the
\* fixed payload, then the confirmation or the error
toggle(ud, chat, env, payload, okReply, errReply) ==
    LET result == update_whatsapp_settings(env.update)
        c == << Call("POST whatsapp-settings", chat, payload, env.update, result) >>
    IN  IF Get(result, "success", FALSE)
        THEN Ret(ud, c, << Reply(okReply, NoArg) >>)
        ELSE Ret(ud, c, << Reply(errReply, NoArg) >>)

\* a settings handler whose private-off toggle leaves allowed_users at ['all']
handle_whatsapp_settings_keeps_all(ud, chat, text, env) ==
    IF text = BtnActiverSilencieux
    THEN toggle(ud, chat, env, [silent_mode |-> TRUE],
                "silent_on", "silent_on_error")
    ELSE IF text = BtnDesactiverSilencieux
    THEN toggle(ud, chat, env, [silent_mode |-> FALSE],
                "silent_off", "silent_off_error")
    ELSE IF text = BtnActiverPrive
    THEN toggle(ud, chat, env, [private_mode |-> TRUE, allowed_users |-> << "all" >>],
                "private_on", "private_on_error")
    ELSE IF text = BtnDesactiverPrive
    THEN toggle(ud, chat, env, [private_mode |-> FALSE, allowed_users |-> << "all" >>],
                "private_off", "private_off_error")
    ELSE IF text = BtnGererAcces
    THEN Ret(ud, << >>, << Reply("access_management", NoArg) >>)
    ELSE Ret(ud, << >>, << >>)

handle_whatsapp_settings(ud, chat, text, env) ==
    IF text = BtnActiverSilencieux
    THEN toggle(ud, chat, env, [silent_mode |-> TRUE],
                "silent_on", "silent_on_error")
    ELSE IF text = BtnDesactiverSilencieux
    THEN toggle(ud, chat, env, [silent_mode |-> FALSE],
                "silent_off", "silent_off_error")
    ELSE IF text = BtnActiverPrive
    THEN toggle(ud, chat, env, [private_mode |-> TRUE, allowed_users |-> << "all" >>],
                "private_on", "private_on_error")
    ELSE IF text = BtnDesactiverPrive
    THEN toggle(ud, chat, env, [private_mode |-> FALSE, allowed_users |-> << >>],
                "private_off", "private_off_error")
    ELSE IF text = BtnGererAcces
    THEN Ret(ud, << >>, << Reply("access_management", NoArg) >>)
    ELSE Ret(ud, << >>, << >>)

show_users(ud, chat, env) ==
    LET users_data == get_active_users(env.users)
        c == << Call("users/active", chat, NoArg, env.users, users_data) >>
    IN  IF chat \notin ADMIN_IDS
        THEN Ret(ud, << >>, << >>)
        ELSE IF truthy(users_data)
        THEN Ret(ud, c, << Reply("users_list", NoArg) >>)
        ELSE Ret(ud, c, << Reply("no_active_users", NoArg) >>)

-----------------------------------------------------------------------------
\* handle_message: the if/elif chain, first match wins.

\* lines 755-776: the captions of the user keyboards
user_branch(text) ==
    IF text = BtnUtiliserCode THEN "use_code"
    ELSE IF text = BtnSAbonner THEN "subscribe_info"
    ELSE IF text = BtnConnecterWhatsApp THEN "connect_options"
    ELSE IF text = BtnStatut THEN "status"
    ELSE IF text = BtnAide THEN "help"
    ELSE IF text = BtnMenuPrincipal THEN "show_main_menu"
    ELSE IF text = BtnParametresWhatsApp THEN "whatsapp_settings"
    ELSE IF text = BtnQRCode THEN "connect_whatsapp_qr"
    ELSE IF text = BtnPairingCode THEN "connect_whatsapp_pairing"
    ELSE IF text = BtnEssaiGratuit THEN "start_trial_session"
    ELSE IF text = BtnAcheterPremium THEN "subscribe_info"
    ELSE "no match"

\* the admin captions without the allow-list test
admin_branch_ungated(chat, text) ==
    IF text = BtnGenererCode THEN "generate_code_usage"
    ELSE IF text = BtnStatistiques THEN "stats"
    ELSE IF text = BtnMiseAJour THEN "upgrade_bot"
    ELSE IF text = BtnCommandes THEN "manage_commands"
    ELSE IF text = BtnUtilisateurs THEN "show_users"
    ELSE "no match"

\* lines 783-804: the captions of the admin keyboard, for an admin chat
admin_branch(chat, text) ==
    IF text = BtnGenererCode /\ chat \in ADMIN_IDS THEN "generate_code_usage"
    ELSE IF text = BtnStatistiques /\ chat \in ADMIN_IDS THEN "stats"
    ELSE IF text = BtnMiseAJour /\ chat \in ADMIN_IDS THEN "upgrade_bot"
    ELSE IF text = BtnCommandes /\ chat \in ADMIN_IDS THEN "manage_commands"
    ELSE IF text = BtnUtilisateurs /\ chat \in ADMIN_IDS THEN "show_users"
    ELSE "no match"

\* lines 807-816: the captions of the settings keyboard
settings_branch(text) ==
    IF text = BtnActiverSilencieux THEN "handle_whatsapp_settings"
    ELSE IF text = BtnDesactiverSilencieux THEN "handle_whatsapp_settings"
    ELSE IF text = BtnActiverPrive THEN "handle_whatsapp_settings"
    ELSE IF text = BtnDesactiverPrive THEN "handle_whatsapp_settings"
    ELSE IF text = BtnGererAcces THEN "handle_whatsapp_settings"
    ELSE "no match"

\* a dispatch that hands every unmatched text to the code processor
branch_catch_all(ud, chat, text) ==
    IF user_branch(text) # "no match" THEN user_branch(text)
    ELSE IF ud.waiting_for_phone THEN "process_phone_number"
    ELSE IF admin_branch(chat, text) # "no match" THEN admin_branch(chat, text)
    ELSE IF settings_branch(text) # "no match" THEN settings_branch(text)
    ELSE "process_access_code"

\* the branch handle_message takes for a text: the user captions, then the
\* phone flag, then the admin captions, the settings captions, the code
\* flag; a text that reaches the end is dropped
branch(ud, chat, text) ==
    IF user_branch(text) # "no match" THEN user_branch(text)
    ELSE IF ud.waiting_for_phone THEN "process_phone_number"
    ELSE IF admin_branch(chat, text) # "no match" THEN admin_branch(chat, text)
    ELSE IF settings_branch(text) # "no match" THEN settings_branch(text)
    ELSE IF ud.waiting_for_code THEN "process_access_code"
    ELSE "dropped"

\* the handler bound to a branch of handle_message or to a slash command
run(h, ud, chat, text, env) ==
    CASE h = "start" -> In(h, start(ud, chat, env))
      [] h = "help" -> In(h, help(ud))
      [] h = "use_code" -> In(h, use_code(ud))
      [] h = "subscribe_info" -> In(h, subscribe_info(ud))
      [] h = "connect_options" -> In(h, connect_options(ud, chat, env))
      [] h = "status" -> In(h, status(ud, chat, env))
      [] h = "show_main_menu" -> In(h, show_main_menu(ud, chat))
      [] h = "whatsapp_settings" -> In(h, whatsapp_settings(ud, chat, env))
      [] h = "connect_whatsapp_qr" -> In(h, connect_whatsapp_qr(ud, chat, env))
      [] h = "connect_whatsapp_pairing" -> In(h, connect_whatsapp_pairing(ud, chat, env))
      [] h = "start_trial_session" -> In(h, start_trial_session(ud, chat, env))
      [] h = "process_phone_number" -> In(h, process_phone_number(ud, chat, text, env))
      [] h = "generate_code_usage" -> Ret(ud, << >>, << Reply("generate_code_usage", NoArg) >>)
      [] h = "admin_panel" -> In(h, admin_panel(ud, chat))
      [] h = "generate_code" -> In(h, generate_code(ud, chat, env))
      [] h = "stats" -> In(h, stats(ud, chat, env))
      [] h = "upgrade_bot" -> In(h, upgrade_bot(ud, chat))
      [] h = "manage_commands" -> In(h, manage_commands(ud, chat, env))
      [] h = "show_users" -> In(h, show_users(ud, chat, env))
      [] h = "handle_whatsapp_settings" -> In(h, handle_whatsapp_settings(ud, chat, text, env))
      [] h = "process_access_code" -> In(h, process_access_code(ud, chat, text, env))
      [] OTHER -> Ret(ud, << >>, << >>)

handle_message(ud, chat, text, env) ==
    In("handle_message", run(branch(ud, chat, text), ud, chat, text, env))

\* the slash commands registered by setup_handlers and their handlers
CommandHandler ==
    [status |-> "status", start |-> "start", use_code |-> "use_code",
     help |-> "help", generate_code |-> "generate_code",
     stats |-> "stats", commands |-> "manage_commands",
     whatsapp_settings |-> "whatsapp_settings", subscribe |-> "subscribe_info",
     connect |-> "connect_options", menu |-> "show_main_menu",
     admin |-> "admin_panel", upgrade |-> "upgrade_bot"]

Commands == DOMAIN CommandHandler

\* the backend answers a handler reads for a text; the others are never
\* looked at (a processor that rejects its input locally reads none)
Reads(h, text) ==
    CASE h \in { "connect_options", "connect_whatsapp_pairing" } -> { "access" }
      [] h = "status" -> { "access", "session" }
      [] h = "whatsapp_settings" -> { "access", "settings" }
      [] h = "start" -> { "register" }
      [] h = "connect_whatsapp_qr" -> { "access", "session", "create" }
      [] h = "start_trial_session" -> { "create" }
      [] h = "process_phone_number" ->
            IF phone_invalid(clean_phone(strip(text))) THEN { } ELSE { "phone" }
      [] h = "process_access_code" ->
            IF re_match_code(upper(strip(text))) THEN { "validate" } ELSE { }
      [] h = "generate_code" -> { "generate" }
      [] h = "stats" -> { "stats" }
      [] h = "manage_commands" -> { "commands" }
      [] h = "show_users" -> { "users" }
      [] h = "handle_whatsapp_settings" -> { "update" }
      [] OTHER -> { }

Answers(reads, field, all) == IF field \in reads THEN all ELSE { Exc }

Envs(h, text) ==
    LET reads == Reads(h, text)
    IN  [register : Answers(reads, "register", RegisterAnswers),
         access : Answers(reads, "access", AccessAnswers),
         create : Answers(reads, "create", CreateAnswers),
         session : Answers(reads, "session", SessionAnswers),
         phone : Answers(reads, "phone", PhoneAnswers),
         validate : Answers(reads, "validate", ValidateAnswers),
         generate : Answers(reads, "generate", GenerateAnswers),
         stats : Answers(reads, "stats", StatsAnswers),
         commands : Answers(reads, "commands", CommandsAnswers),
         settings : Answers(reads, "settings", SettingsAnswers),
         update : Answers(reads, "update", UpdateAnswers),
         users : Answers(reads, "users", UsersAnswers)]

-----------------------------------------------------------------------------
\* The webhook bridge: POST /webhook/send-qr.

\* QR payloads a request carries; the second holds more data than the
\* largest QR symbol, so qr.make(fit=True) raises
QrPayloads == { "2@ref,key", "oversized payload" }

Renders(qr_code) == qr_code # "oversized payload"

\* a delivery attempt through application.bot and whether Telegram took it
Send(kind, chat, arg, ok) == [chat |-> chat, arg |-> arg, kind |-> kind, ok |-> ok]

\* a fallback that reports success whether or not the text was delivered
qr_fallback_reports_success(user_id, qr_code, tg, sent) ==
    [sends |-> sent \o << Send("qr_text_fallback", user_id, qr_code, tg.fallback) >>,
     result |-> TRUE]

\* the except branch of send_qr_code: the raw payload as text
qr_fallback(user_id, qr_code, tg, sent) ==
    [sends |-> sent \o << Send("qr_text_fallback", user_id, qr_code, tg.fallback) >>,
     result |-> tg.fallback]

\* a QR delivery that tries the image even when the instructions failed
send_qr_code_photo_regardless(user_id, qr_code, tg) ==
    LET s1 == << Send("qr_instructions", user_id, NoArg, tg.text) >>
        s2 == s1 \o << Send("qr_photo", user_id, qr_code, tg.photo) >>
    IN  IF ~Renders(qr_code) THEN qr_fallback(user_id, qr_code, tg, << >>)
        ELSE IF ~tg.text \/ ~tg.photo THEN qr_fallback(user_id, qr_code, tg, s2)
        ELSE [sends |-> s2, result |-> TRUE]

\* send_qr_code (the definition of line 1292 replaces the one of line 354);
\* tg says which Telegram sends succeed
send_qr_code(user_id, qr_code, tg) ==
    LET s1 == << Send("qr_instructions", user_id, NoArg, tg.text) >>
        s2 == s1 \o << Send("qr_photo", user_id, qr_code, tg.photo) >>
    IN  IF ~Renders(qr_code) THEN qr_fallback(user_id, qr_code, tg, << >>)
        ELSE IF ~tg.text THEN qr_fallback(user_id, qr_code, tg, s1)
        ELSE IF ~tg.photo THEN qr_fallback(user_id, qr_code, tg, s2)
        ELSE [sends |-> s2, result |-> TRUE]

\* a request body that is not JSON: request.json() raises
NotJson == [not_json |-> TRUE]

\* a JSON body that is not an object: data.get raises
NotObject == Array(<< >>)

\* request.json() or data.get raises
body_raises(data) == data = NotJson \/ ~is_object(data)

\* a required-field test that looks only at the presence of the key
not_get_absent_only(data, k, zero) == k \notin DOMAIN data

\* not data.get(k): the field is absent or holds the falsy value of its type
not_get(data, k, zero) == Get(data, k, zero) = zero

QrRequests ==
    { [qr_code |-> p, user_id |-> c, session_id |-> "s1"] : c \in Chats, p \in QrPayloads }
    \cup { [user_id |-> 2, session_id |-> "s1"], [qr_code |-> "2@ref,key"],
           [qr_code |-> "oversized payload", user_id |-> 0, session_id |-> "s1"],
           [qr_code |-> "", user_id |-> 2, session_id |-> "s1"],
           NotJson, NotObject }

Response(code, ok) == [status |-> code, success |-> ok]

\* what a bridge handler leaves: the HTTP response, the sends, the functions run
Answered(code, ok, sent, ran) == [path |-> ran, sends |-> sent, http |-> Response(code, ok)]

handle_send_qr(data, tg) ==
    IF body_raises(data)
    THEN Answered(500, FALSE, << >>, << "handle_send_qr" >>)
    ELSE IF not_get(data, "user_id", 0) \/ not_get(data, "qr_code", "")
    THEN Answered(400, FALSE, << >>, << "handle_send_qr" >>)
    ELSE LET sent == send_qr_code(data.user_id, data.qr_code, tg)
         IN  Answered(200, sent.result, sent.sends, << "handle_send_qr", "send_qr_code" >>)

TelegramOutcomes == [text : BOOLEAN, fallback : BOOLEAN, photo : BOOLEAN]

\* the characters escape_markdown puts a backslash before (U+0060 is the
\* backquote)
EscapeChars ==
    { "\\", "_", "*", "[", "]", "(", ")", "~", "U+0060", ">", "#", "+", "-", "=", "|",
      "{", "}", ".", "!" }

RECURSIVE escape_markdown(_)
escape_markdown(text) ==
    IF text = << >> THEN << >>
    ELSE (IF Head(text) \in EscapeChars THEN << "\\", Head(text) >> ELSE << Head(text) >>)
         \o escape_markdown(Tail(text))

\* a delivery that makes the plain attempt whatever the first attempt did
send_direct_message_always_twice(user_id, message, tg) ==
    [sends |-> << Send("message_markdown", user_id, escape_markdown(message), tg.formatted),
                  Send("message_plain", user_id, message, tg.plain) >>,
     result |-> tg.formatted \/ tg.plain]

\* send_direct_message: the escaped text as MarkdownV2, then the text as it
\* came without parse_mode; tg says which Telegram sends succeed
send_direct_message(user_id, message, tg) ==
    LET s1 == << Send("message_markdown", user_id, escape_markdown(message), tg.formatted) >>
        s2 == s1 \o << Send("message_plain", user_id, message, tg.plain) >>
    IN  IF tg.formatted THEN [sends |-> s1, result |-> TRUE]
        ELSE [sends |-> s2, result |-> tg.plain]

MessageTexts == { << "h", "i" >>, << "*", "o", "k", "_", "." >> }

MessageRequests ==
    { [user_id |-> c, message |-> m] : c \in Chats \cup { 0 }, m \in MessageTexts \cup { << >> } }
    \cup { [user_id |-> 2], [message |-> << "h", "i" >>], NotJson, NotObject }

handle_send_message(data, tg) ==
    IF body_raises(data)
    THEN Answered(500, FALSE, << >>, << "handle_send_message" >>)
    ELSE IF not_get(data, "user_id", 0) \/ not_get(data, "message", << >>)
    THEN Answered(400, FALSE, << >>, << "handle_send_message" >>)
    ELSE LET sent == send_direct_message(data.user_id, data.message, tg)
         IN  Answered(200, sent.result, sent.sends,
                      << "handle_send_message", "send_direct_message" >>)

MessageOutcomes == [formatted : BOOLEAN, plain : BOOLEAN]

\* a pairing delivery with a second attempt after a failed one
send_pairing_code_with_retry(user_id, pairing_code, phone_number, tg) ==
    IF tg.text
    THEN [sends |-> << Send("pairing_code", user_id, pairing_code, TRUE) >>, result |-> TRUE]
    ELSE [sends |-> << Send("pairing_code", user_id, pairing_code, FALSE),
                       Send("pairing_code", user_id, pairing_code, FALSE) >>,
          result |-> FALSE]

\* send_pairing_code: one MarkdownV2 message carrying the code
send_pairing_code(user_id, pairing_code, phone_number, tg) ==
    [sends |-> << Send("pairing_code", user_id, pairing_code, tg.text) >>, result |-> tg.text]

PairingRequests ==
    { [phone_number |-> "23333337", user_id |-> c, pairing_code |-> "ABCD-1234"] :
        c \in Chats \cup { 0 } }
    \cup { [user_id |-> 2, pairing_code |-> "ABCD-1234"],
           [phone_number |-> "23333337", user_id |-> 2, pairing_code |-> ""],
           [phone_number |-> "23333337", user_id |-> 2],
           [pairing_code |-> "ABCD-1234"], NotJson, NotObject }

handle_send_pairing(data, tg) ==
    IF body_raises(data)
    THEN Answered(500, FALSE, << >>, << "handle_send_pairing" >>)
    ELSE IF not_get(data, "user_id", 0) \/ not_get(data, "pairing_code", "")
    THEN Answered(400, FALSE, << >>, << "handle_send_pairing" >>)
    ELSE LET sent == send_pairing_code(data.user_id, data.pairing_code,
                                       Get(data, "phone_number", None), tg)
         IN  Answered(200, sent.result, sent.sends,
                      << "handle_send_pairing", "send_pairing_code" >>)

PairingOutcomes == [text : BOOLEAN]

\* the body GET /health is answered with, by its 'status' field
HealthResponse == [status |-> 200, health |-> "healthy"]

\* handle_health reads nothing of the request and sends nothing
handle_health == [path |-> << "handle_health" >>, sends |-> << >>, http |-> HealthResponse]

-----------------------------------------------------------------------------
\* The texts chats type.

RECURSIVE Rep(_, _)
Rep(c, n) == IF n <= 0 THEN << >> ELSE << c >> \o Rep(c, n - 1)

CodeHeads ==
    { << "N", "O", "V", "A", "-" >>, << "n", "o", "v", "a", "-" >>,
      << "N", "O", "V", "A", "_" >> }

CodeLastChars == { "z", "9", "_", "U+00DF", "U+017F" }

\* a typed access code: l spaces, a head, A...A and a last character, l newlines
CodeText(l, h, n, c) == Rep(" ", l) \o h \o Rep("A", n - 1) \o << c >> \o Rep("\n", l)

CodeTexts ==
    { CodeText(l, h, n, c) :
        l \in 0..MaxPad, h \in CodeHeads, n \in (CodeBodyLen - 1)..MaxBody,
        c \in CodeLastChars }

PhoneLens == { PhoneMinLen - 1, PhoneMinLen, PhoneMaxLen, PhoneMaxLen + 1 }

\* a typed phone number of d characters after the prefix p, with the
\* separators s after the first, the last character being c
PhoneText(p, s, d, c) == p \o << "2" >> \o s \o Rep("3", d - 2) \o << c >>

PhoneTexts ==
    { PhoneText(p, s, d, c) :
        p \in { << >>, << "+" >> }, s \in { << >>, << " ", "-" >> },
        d \in PhoneLens, c \in { "7", "x", "U+00B2", "+" } }

\* every typed text of the model
TypedTexts == CodeTexts \cup PhoneTexts

\* the typed texts of the full state machine: an access code in lower case,
\* one with a wrong separator, a phone number written "+2 -3333337", one a
\* digit short, and a greeting
SampleTexts ==
    { CodeText(0, << "n", "o", "v", "a", "-" >>, CodeBodyLen, "z"),
      CodeText(0, << "N", "O", "V", "A", "_" >>, CodeBodyLen, "z"),
      PhoneText(<< "+" >>, << " ", "-" >>, PhoneMinLen, "7"),
      PhoneText(<< >>, << >>, PhoneMinLen - 1, "7"),
      << "h", "i" >> }

Captions == UserCaptions \cup AdminCaptions \cup SettingsCaptions

Texts == Captions \cup SampleTexts

-----------------------------------------------------------------------------
\* The state machine.

NoResponse == [status |-> 0, success |-> FALSE]

\* run() before initialize() has done anything
Booting ==
    [pc |-> "connect_to_nodejs", connected |-> FALSE, advertised |-> FALSE,
     listening |-> FALSE]

\* run() once initialize() has returned with the backend healthy and
\* application.run_polling() is serving
Running ==
    [pc |-> "run_polling", connected |-> TRUE, advertised |-> TRUE, listening |-> TRUE]

\* no handler is suspended
NoFlight == [chat |-> 0, text |-> << >>]

Init ==
    /\ user_data = [c \in Chats |-> NoFlags]
    /\ event = [src |-> "none"]
    /\ path = << >>
    /\ calls = << >>
    /\ replies = << >>
    /\ raised = FALSE
    /\ sends = << >>
    /\ http = NoResponse
    /\ granted = {}
    /\ boot = Running
    /\ inflight = NoFlight
    /\ delivered = [c \in Chats |-> << >>]

\* one of the backend calls cs is an access check answered hasAccess=true
Grants(cs) ==
    \E i \in DOMAIN cs :
        /\ cs[i].op = "auth/access"
        /\ "hasAccess" \in DOMAIN cs[i].ret /\ cs[i].ret.hasAccess

\* the router handled an event of chat and its handler did res
Handled(chat, res) ==
    /\ user_data' = [user_data EXCEPT ![chat] = res.ud]
    /\ path' = res.path
    /\ calls' = res.calls
    /\ replies' = res.replies
    /\ raised' = res.raised
    /\ sends' = << >>
    /\ http' = NoResponse
    /\ granted' = IF Grants(res.calls) THEN granted \cup {chat} ELSE granted
    /\ UNCHANGED boot

\* a text message that is not a command arrives: handle_message
TextMessage(chat, text) ==
    /\ event' = [chat |-> chat, text |-> text, src |-> "text"]
    /\ \E res \in { handle_message(user_data[chat], chat, text, env) :
                      env \in Envs(branch(user_data[chat], chat, text), text) } :
          Handled(chat, res)
    /\ UNCHANGED << inflight, delivered >>

\* a slash command arrives: its CommandHandler
Command(chat, cmd) ==
    /\ event' = [chat |-> chat, src |-> "command", cmd |-> cmd]
    /\ \E res \in { run(CommandHandler[cmd], user_data[chat], chat, << >>, env) :
                      env \in Envs(CommandHandler[cmd], << >>) } :
          Handled(chat, res)
    /\ UNCHANGED << inflight, delivered >>

\* a bridge that forgets every chat's pending input when it answers
Bridged_clearing_flags(op, data, out) ==
    /\ event' = [op |-> op, data |-> data, src |-> "bridge"]
    /\ path' = out.path
    /\ sends' = out.sends
    /\ http' = out.http
    /\ calls' = << >>
    /\ replies' = << >>
    /\ raised' = FALSE
    /\ user_data' = [c \in Chats |-> NoFlags]
    /\ UNCHANGED << granted, boot >>

\* the bridge answered the request data of route op with out
Bridged(op, data, out) ==
    /\ event' = [op |-> op, data |-> data, src |-> "bridge"]
    /\ path' = out.path
    /\ sends' = out.sends
    /\ http' = out.http
    /\ calls' = << >>
    /\ replies' = << >>
    /\ raised' = FALSE
    /\ UNCHANGED << user_data, granted, boot >>

\* the backend posts to /webhook/send-qr
BridgeSendQr(data, tg) ==
    /\ Bridged("send-qr", data, handle_send_qr(data, tg))
    /\ UNCHANGED << inflight, delivered >>

\* the backend posts to /webhook/send-message
BridgeSendMessage(data, tg) ==
    /\ Bridged("send-message", data, handle_send_message(data, tg))
    /\ UNCHANGED << inflight, delivered >>

\* the backend posts to /webhook/send-pairing
BridgeSendPairing(data, tg) ==
    /\ Bridged("send-pairing", data, handle_send_pairing(data, tg))
    /\ UNCHANGED << inflight, delivered >>

\* somebody gets /health; the request has no body
BridgeHealth ==
    /\ Bridged("health", EmptyObject, handle_health)
    /\ UNCHANGED << inflight, delivered >>

Next ==
    \/ \E chat \in Chats, text \in Texts : TextMessage(chat, text)
    \/ \E chat \in Chats, cmd \in Commands : Command(chat, cmd)
    \/ \E data \in QrRequests, tg \in TelegramOutcomes : BridgeSendQr(data, tg)
    \/ \E data \in MessageRequests, tg \in MessageOutcomes : BridgeSendMessage(data, tg)
    \/ \E data \in PairingRequests, tg \in PairingOutcomes : BridgeSendPairing(data, tg)
    \/ BridgeHealth

Spec == Init /\ [][Next]_vars

\* The two processors on every typed text: chat 2 has pressed "use code" or
\* has passed the access check of "pairing connect", and types.
TypingChat == 2

InitTyping ==
    /\ \E ud \in { use_code(NoFlags).ud, ask_phone_number(NoFlags).ud } :
          /\ user_data = [c \in Chats |-> IF c = TypingChat THEN ud ELSE NoFlags]
          /\ granted = IF ud.waiting_for_phone THEN {TypingChat} ELSE {}
    /\ boot = Running
    /\ inflight = NoFlight
    /\ delivered = [c \in Chats |-> << >>]
    /\ event = [src |-> "none"]
    /\ path = << >>
    /\ calls = << >>
    /\ replies = << >>
    /\ raised = FALSE
    /\ sends = << >>
    /\ http = NoResponse

NextTyping == \E text \in TypedTexts : TextMessage(TypingChat, text)

SpecTyping == InitTyping /\ [][NextTyping]_vars

-----------------------------------------------------------------------------
\* Start-up: run() drives initialize() to its end, then polls.  The backend
\* posts to the webhook once it has been told of it.

\* an answer of the backend with its HTTP status
Http(code, d) == [code |-> code, exc |-> FALSE, json |-> d]

\* answers to GET /health
HealthAnswers ==
    { Exc, Http(200, [status |-> "healthy"]), Http(200, [status |-> "starting"]),
      Http(200, EmptyObject), Http(503, [status |-> "healthy"]) }

\* answers to POST /api/bot/connect
BotConnectAnswers ==
    { Exc, Http(200, [success |-> TRUE]), Http(200, [success |-> FALSE]),
      Http(500, EmptyObject) }

\* the test connect_to_nodejs makes of the health answer
healthy(answer) ==
    /\ ~answer.exc
    /\ answer.code = 200
    /\ Get(answer.json, "status", "") = "healthy"

InitStartup ==
    /\ user_data = [c \in Chats |-> NoFlags]
    /\ event = [src |-> "none"]
    /\ path = << >>
    /\ calls = << >>
    /\ replies = << >>
    /\ raised = FALSE
    /\ sends = << >>
    /\ http = NoResponse
    /\ granted = {}
    /\ boot = Booting
    /\ inflight = NoFlight
    /\ delivered = [c \in Chats |-> << >>]

\* a step of initialize(): no event is handled
Initializing ==
    UNCHANGED << user_data, event, path, calls, replies, raised, sends, http, granted,
                 inflight, delivered >>

\* connect_to_nodejs up to its call of register_bot
ConnectToNodejs(answer) ==
    /\ boot.pc = "connect_to_nodejs"
    /\ boot' = IF healthy(answer)
               THEN [boot EXCEPT !.pc = "register_bot", !.connected = TRUE]
               ELSE [boot EXCEPT !.pc = "http_bridge.start"]
    /\ Initializing

\* register_bot: the backend has the webhook URL once the POST reached it,
\* whatever it answers; the answer is only logged
RegisterBot(answer) ==
    /\ boot.pc = "register_bot"
    /\ boot' = [boot EXCEPT !.pc = "http_bridge.start", !.advertised = ~answer.exc]
    /\ Initializing

\* http_bridge.start(): the listener is up unless the port cannot be bound,
\* and then initialize() raises and run() never polls
HttpBridgeStart(bound) ==
    /\ boot.pc = "http_bridge.start"
    /\ boot' = IF bound
               THEN [boot EXCEPT !.pc = "run_polling", !.listening = TRUE]
               ELSE [boot EXCEPT !.pc = "failed"]
    /\ Initializing

\* the backend posts to the webhook it was told of while nothing listens
\* there: the connection is refused and no handler runs
WebhookRefused(op, data) ==
    /\ boot.advertised /\ ~boot.listening
    /\ event' = [op |-> op, data |-> data, src |-> "refused"]
    /\ path' = << >>
    /\ sends' = << >>
    /\ http' = NoResponse
    /\ calls' = << >>
    /\ replies' = << >>
    /\ raised' = FALSE
    /\ UNCHANGED << user_data, granted, boot, inflight, delivered >>

\* the bridge serves a request once the event loop runs again
WebhookServed ==
    /\ boot.pc = "run_polling"
    /\ \/ \E data \in QrRequests, tg \in TelegramOutcomes : BridgeSendQr(data, tg)
       \/ \E data \in MessageRequests, tg \in MessageOutcomes : BridgeSendMessage(data, tg)
       \/ \E data \in PairingRequests, tg \in PairingOutcomes : BridgeSendPairing(data, tg)
       \/ BridgeHealth

NextStartup ==
    \/ \E answer \in HealthAnswers : ConnectToNodejs(answer)
    \/ \E answer \in BotConnectAnswers : RegisterBot(answer)
    \/ \E bound \in BOOLEAN : HttpBridgeStart(bound)
    \/ \E data \in PairingRequests : WebhookRefused("send-pairing", data)
    \/ \E data \in QrRequests : WebhookRefused("send-qr", data)
    \/ \E data \in MessageRequests : WebhookRefused("send-message", data)
    \/ WebhookServed

SpecStartup == InitStartup /\ [][NextStartup]_vars

-----------------------------------------------------------------------------
\* A pairing flow step by step: process_phone_number gives up control while
\* it awaits the backend, and the bridge, served by the same event loop, may
\* handle a request meanwhile.

\* the numbers typed in the flows followed
PairingTexts ==
    { PhoneText(<< "+" >>, << " ", "-" >>, PhoneMinLen, "7"),
      PhoneText(<< >>, << >>, PhoneMaxLen, "7") }

\* the templates of the replies rs
Tpls(rs) == [i \in DOMAIN rs |-> rs[i].tpl]

\* the kinds of the sends ss that Telegram took for chat c
Taken(ss, c) ==
    LET took == SelectSeq(ss, LAMBDA x : x.ok /\ x.chat = c)
    IN  [i \in DOMAIN took |-> took[i].kind]

\* the backend has the create-with-phone request of chat c and has not yet
\* had its pairing code delivered
CodeDue(c) ==
    /\ \A i \in DOMAIN delivered[c] : delivered[c][i] # "pairing_code"
    /\ inflight.chat = c
          \/ \E i \in DOMAIN delivered[c] : delivered[c][i] = "pairing_code_coming"

InitPairing ==
    /\ user_data = [c \in Chats |-> ask_phone_number(NoFlags).ud]
    /\ event = [src |-> "none"]
    /\ path = << >>
    /\ calls = << >>
    /\ replies = << >>
    /\ raised = FALSE
    /\ sends = << >>
    /\ http = NoResponse
    /\ granted = Chats
    /\ boot = Running
    /\ inflight = NoFlight
    /\ delivered = [c \in Chats |-> << >>]

\* process_phone_number up to its await of create_whatsapp_session_with_phone:
\* the number is valid, the "generating" reply is out, the call is issued
PhoneStart(chat, text) ==
    /\ inflight = NoFlight
    /\ delivered[chat] = << >>
    /\ branch(user_data[chat], chat, text) = "process_phone_number"
    /\ ~phone_invalid(clean_phone(strip(text)))
    /\ LET res == handle_message(user_data[chat], chat, text,
                                 CHOOSE env \in Envs("process_phone_number", text) : TRUE)
       IN  /\ path' = res.path
           /\ replies' = SubSeq(res.replies, 1, 1)
           /\ delivered' = [delivered EXCEPT ![chat] = Tpls(SubSeq(res.replies, 1, 1))]
    /\ event' = [chat |-> chat, text |-> text, src |-> "text"]
    /\ calls' = << >>
    /\ raised' = FALSE
    /\ sends' = << >>
    /\ http' = NoResponse
    /\ inflight' = [chat |-> chat, text |-> text]
    /\ UNCHANGED << user_data, granted, boot >>

\* the backend answers and process_phone_number runs to its end
PhoneFinish(env) ==
    /\ inflight # NoFlight
    /\ LET chat == inflight.chat
           res == handle_message(user_data[chat], chat, inflight.text, env)
       IN  /\ Handled(chat, res)
           /\ delivered' = [delivered EXCEPT
                  ![chat] = @ \o Tpls(SubSeq(res.replies, 2, Len(res.replies)))]
    /\ event' = [chat |-> inflight.chat, text |-> inflight.text, src |-> "text"]
    /\ inflight' = NoFlight

\* the backend posts the pairing code of a flow it has the request of
PairingCodeArrives(data, tg) ==
    /\ ~body_raises(data)
    /\ "user_id" \in DOMAIN data /\ data.user_id \in Chats
    /\ CodeDue(data.user_id)
    /\ Bridged("send-pairing", data, handle_send_pairing(data, tg))
    /\ delivered' = [delivered EXCEPT
           ![data.user_id] = @ \o Taken(handle_send_pairing(data, tg).sends, data.user_id)]
    /\ UNCHANGED inflight

NextPairing ==
    \/ \E chat \in Chats, text \in PairingTexts : PhoneStart(chat, text)
    \/ \E text \in PairingTexts :
          \E env \in Envs("process_phone_number", text) : PhoneFinish(env)
    \/ \E data \in PairingRequests, tg \in PairingOutcomes : PairingCodeArrives(data, tg)

SpecPairing == InitPairing /\ [][NextPairing]_vars

-----------------------------------------------------------------------------
\* Observations on the latest event, used by the properties below.

\* the latest event is a text message / a slash command / a bridge request
IsText == event.src = "text"
IsCommand == event.src = "command"
IsBridge == event.src = "bridge"

\* handler h ran for the latest event
Ran(h) == \E i \in DOMAIN path : path[i] = h

\* the backend calls of operation op made for the latest event
CallsOf(op) == SelectSeq(calls, LAMBDA c : c.op = op)

\* a reply of template tpl was sent for the latest event
Replied(tpl) == \E i \in DOMAIN replies : replies[i].tpl = tpl

\* the chat and the text of the latest text message
Sender == event.chat
Typed == event.text

-----------------------------------------------------------------------------
\* Access codes and phone numbers as the specification words them.

\* NOVA- followed by exactly 7 characters of [A-Z0-9]
WellFormedCode(s) ==
    /\ Len(s) = 12
    /\ SubSeq(s, 1, 5) = << "N", "O", "V", "A", "-" >>
    /\ \A i \in 6..12 : s[i] \in Range(UpperLetters) \cup AsciiDigits

\* the text with every +, space and hyphen taken out
Normalised(s) == SelectSeq(strip(s), LAMBDA c : c \notin { "+", " ", "-" })

\* a character that is not one of the ten digits
NonDigit(c) == c \notin AsciiDigits

-----------------------------------------------------------------------------
\* C1: for every text routed to the access-code processor, a validate-code
\* call is issued if and only if the trimmed, upper-cased text is NOVA-
\* followed by exactly 7 characters of [A-Z0-9]; every other text gets the
\* format-error reply alone and no backend call.
C1_ValidateIffWellFormed ==
    (IsText /\ Ran("process_access_code")) =>
        IF WellFormedCode(upper(strip(Typed)))
        THEN Len(CallsOf("auth/validate-code")) = 1
        ELSE calls = << >> /\ replies = << Reply("code_format_error", NoArg) >>

\* a code typed in lower case between white space was sent to the backend
C1_Witness ==
    /\ IsText /\ Ran("process_access_code")
    /\ Typed # upper(Typed) /\ Typed # strip(Typed)
    /\ Len(CallsOf("auth/validate-code")) = 1
    /\ calls[1].arg = upper(strip(Typed))

\* C2: a text routed to the phone processor whose normalised form has
\* fewer than 8 or more than 15 characters, or holds a character that is not
\* a digit, gets the invalid-number reply and causes no create-with-phone call.
C2_BadPhoneRejected ==
    (/\ IsText /\ Ran("process_phone_number")
     /\ \/ Len(Normalised(Typed)) < 8
        \/ Len(Normalised(Typed)) > 15
        \/ \E i \in DOMAIN Normalised(Typed) : NonDigit(Normalised(Typed)[i]))
    => /\ Replied("phone_invalid")
       /\ CallsOf("sessions/create-with-phone") = << >>

-----------------------------------------------------------------------------
\* Admin vocabulary.

AdminHandlers ==
    { "admin_panel", "generate_code", "stats", "upgrade_bot", "manage_commands",
      "show_users", "generate_code_usage" }

AdminOps == { "admin/generate-code", "admin/stats", "commands/info", "users/active" }

AdminCommands == { "admin", "generate_code", "stats", "upgrade", "commands" }

\* the replies that carry admin content
AdminPayloads ==
    { "admin_panel", "generate_code_usage", "code_generating", "code_generated",
      "code_generation_error", "stats", "stats_error", "checking_updates",
      "commands_info", "commands_error", "users_list", "no_active_users",
      "menu_admin_keyboard" }

NoAdminAction ==
    /\ \A i \in DOMAIN path : path[i] \notin AdminHandlers
    /\ \A i \in DOMAIN calls : calls[i].op \notin AdminOps
    /\ \A i \in DOMAIN replies : replies[i].tpl \notin AdminPayloads

Denial == << Reply("admin_only", NoArg) >>

\* a non-admin chat sent an admin caption
NonAdminSentAdminCaption == IsText /\ Typed \in AdminCaptions /\ Sender \notin ADMIN_IDS

-----------------------------------------------------------------------------
\* C3: the pending-input flags are consulted only for a text that matches
\* no user caption, no admin caption sent by an admin and no settings
\* caption: a processor never runs on such a caption.
C3_FlagsConsultedLast ==
    (IsText /\ (Ran("process_phone_number") \/ Ran("process_access_code"))) =>
        /\ Typed \notin UserCaptions
        /\ ~(Typed \in AdminCaptions /\ Sender \in ADMIN_IDS)
        /\ Typed \notin SettingsCaptions

\* C4 as claimed: an admin caption from a non-admin chat produces no admin
\* action, and either no reply at all or a denial reply, whatever flag is set.
C4_NoReplyOrDenial ==
    NonAdminSentAdminCaption =>
        NoAdminAction /\ (replies = << >> \/ replies = Denial)

\* C4 as amended: an admin caption from a non-admin chat produces no admin
\* action, no admin payload and no backend call, and leaves the flags as they
\* were; it gets no reply when no flag is set, and otherwise the re-prompt of
\* the processor it falls through to (the phone processor's invalid-number
\* reply when awaiting-phone is set, else the code processor's format-error
\* reply).
C4_NonAdminCaptionFallsThrough ==
    NonAdminSentAdminCaption =>
        /\ NoAdminAction
        /\ calls = << >>
        /\ ~raised
        /\ replies = IF user_data[Sender].waiting_for_phone
                     THEN << Reply("phone_invalid", NoArg) >>
                     ELSE IF user_data[Sender].waiting_for_code
                     THEN << Reply("code_format_error", NoArg) >>
                     ELSE << >>

\* a non-admin chat awaiting a code sent an admin caption and was re-prompted
C4_Witness ==
    /\ NonAdminSentAdminCaption
    /\ Ran("process_access_code")
    /\ replies = << Reply("code_format_error", NoArg) >>

\* C5: no admin backend operation is called for a sender outside the
\* allow-list, by button or by command; an admin slash command answers such a
\* sender with the denial message and nothing else.
C5_AdminOpsOnlyForAdmins ==
    ((IsText \/ IsCommand) /\ Sender \notin ADMIN_IDS) =>
        /\ \A i \in DOMAIN calls : calls[i].op \notin AdminOps
        /\ (IsCommand /\ event.cmd \in AdminCommands) =>
              replies = Denial /\ calls = << >> /\ ~raised

\* a non-admin chat sent /stats and got the denial
C5_Witness ==
    /\ IsCommand /\ event.cmd = "stats" /\ Sender \notin ADMIN_IDS
    /\ replies = Denial

\* C6: when the access check answers hasAccess=false, or the answer is the
\* one substituted for an unreachable backend, connect-options shows the
\* trial/premium screen and never the QR/Pairing screen.
C6_NoAccessShowsTrial ==
    (/\ Ran("connect_options")
     /\ \/ calls[1].exc
        \/ "hasAccess" \in DOMAIN calls[1].ret /\ ~calls[1].ret.hasAccess)
    => /\ replies = << Reply("trial_or_premium", NoArg) >>
       /\ ~Replied("choose_qr_or_pairing")

\* connect-options ran while the backend was unreachable and showed the
\* trial/premium screen
C6_Witness ==
    /\ Ran("connect_options")
    /\ calls[1].exc
    /\ Replied("trial_or_premium")

\* C7: a conversation never holds awaiting-code and awaiting-phone together.
C7_AtMostOneFlag ==
    \A c \in Chats : ~(user_data[c].waiting_for_code /\ user_data[c].waiting_for_phone)

\* the latest text was a code attempt rejected for its format
FormatRejectedCode == Ran("process_access_code") /\ Replied("code_format_error")

\* C8: while awaiting-code is set, one further text message of that chat (a
\* code attempt, a caption other than "use code", any other text; a code
\* attempt rejected for its format excepted) leaves awaiting-code cleared.
C8_ClearedByNextText ==
    [][\A c \in Chats :
         (/\ user_data[c].waiting_for_code
          /\ event'.src = "text" /\ event'.chat = c
          /\ event'.text # BtnUtiliserCode
          /\ ~FormatRejectedCode')
         => ~user_data'[c].waiting_for_code]_vars

\* a phone number as the specification words it: digits only, 8 to 15 of them
WellFormedPhone(s) ==
    /\ Len(Normalised(s)) \in 8..15
    /\ \A i \in DOMAIN Normalised(s) : ~NonDigit(Normalised(s)[i])

\* C9: when a format-valid access code or phone number is processed, the
\* flag that routed it is cleared when the handler finishes, whatever the
\* backend answers, and the backend is called exactly once.
C9_ValidInputClearsFlag ==
    /\ (IsText /\ Ran("process_access_code") /\ WellFormedCode(upper(strip(Typed)))) =>
          /\ ~user_data[Sender].waiting_for_code
          /\ Len(calls) = 1 /\ calls[1].op = "auth/validate-code"
          /\ ~raised
    /\ (IsText /\ Ran("process_phone_number") /\ WellFormedPhone(Typed)) =>
          /\ ~user_data[Sender].waiting_for_phone
          /\ ~user_data[Sender].pending_pairing
          /\ Len(calls) = 1 /\ calls[1].op = "sessions/create-with-phone"
          /\ ~raised

\* a well-formed code was processed while the backend was unreachable, and
\* the flag is cleared
C9_Witness ==
    /\ IsText /\ Ran("process_access_code")
    /\ Len(calls) = 1 /\ calls[1].exc
    /\ ~user_data[Sender].waiting_for_code

\* the latest event is a send-qr request with its required fields whose
\* payload cannot be rendered into an image
UnrenderableQr ==
    /\ IsBridge /\ event.op = "send-qr"
    /\ ~body_raises(event.data)
    /\ ~not_get(event.data, "user_id", 0) /\ ~not_get(event.data, "qr_code", "")
    /\ ~Renders(event.data.qr_code)

\* C10 as claimed: deliver-qr with a payload that cannot be rendered sends
\* the raw payload as text and answers success=true.
C10_FallbackAlwaysSucceeds ==
    UnrenderableQr =>
        /\ http.status = 200 /\ http.success
        /\ Len(sends) = 1 /\ sends[1].kind = "qr_text_fallback"

\* C10 as amended: deliver-qr with a payload that cannot be rendered never
\* raises to the HTTP layer (the answer is a 200, not a 500): it makes one
\* send, the raw payload as text, and answers success=true exactly when that
\* send succeeded and success=false when it failed.
C10_FallbackDecidesSuccess ==
    UnrenderableQr =>
        /\ http.status = 200
        /\ Len(sends) = 1
        /\ sends[1].kind = "qr_text_fallback"
        /\ sends[1].chat = event.data.user_id
        /\ sends[1].arg = event.data.qr_code
        /\ http.success = sends[1].ok

\* an unrenderable payload went out as text and the bridge answered success
C10_Witness ==
    /\ UnrenderableQr
    /\ Len(sends) = 1 /\ sends[1].ok
    /\ http.success

-----------------------------------------------------------------------------
\* Bridge vocabulary.

\* the latest event is a request to route op whose body is a JSON object
BridgeCall(op) == IsBridge /\ event.op = op /\ ~body_raises(event.data)

\* the request body has no usable field k: the key is absent, or its value is
\* the empty value of its type
Lacks(data, k, empty) == k \notin DOMAIN data \/ data[k] = empty

\* the latest bridge request lacks a required field of its route
LacksRequiredField ==
    \/ BridgeCall("send-message")
          /\ (Lacks(event.data, "user_id", 0) \/ Lacks(event.data, "message", << >>))
    \/ BridgeCall("send-qr")
          /\ (Lacks(event.data, "user_id", 0) \/ Lacks(event.data, "qr_code", ""))
    \/ BridgeCall("send-pairing")
          /\ (Lacks(event.data, "user_id", 0) \/ Lacks(event.data, "pairing_code", ""))

\* the latest bridge request is a complete one to route op
Delivery(op) == BridgeCall(op) /\ ~LacksRequiredField

\* one of the sends of the latest event succeeded
SomeSendOk == \E i \in DOMAIN sends : sends[i].ok

\* C11: deliver-message makes a first formatted send attempt; only if that
\* attempt fails does it make exactly one further attempt, with the
\* unformatted text; it answers success=true iff one of the two attempts
\* succeeded and never makes a third attempt.
C11_FormattedThenPlainOnce ==
    Delivery("send-message") =>
        /\ Len(sends) \in { 1, 2 }
        /\ sends[1] = Send("message_markdown", event.data.user_id,
                           escape_markdown(event.data.message), sends[1].ok)
        /\ (Len(sends) = 2) <=> ~sends[1].ok
        /\ (Len(sends) = 2) =>
              sends[2] = Send("message_plain", event.data.user_id, event.data.message,
                              sends[2].ok)
        /\ http.status = 200
        /\ http.success <=> SomeSendOk

\* a message whose formatted attempt failed went out as plain text
C11_Witness ==
    /\ Delivery("send-message")
    /\ Len(sends) = 2 /\ ~sends[1].ok /\ sends[2].ok
    /\ sends[1].arg # sends[2].arg
    /\ http.success

\* C12: a bridge request that lacks a required field of its route is
\* answered with HTTP 400 and success=false and causes no delivery attempt;
\* a request whose handling raises is answered with HTTP 500 and
\* success=false.
C12_MissingField400Raise500 ==
    /\ LacksRequiredField => http = Response(400, FALSE) /\ sends = << >>
    /\ (IsBridge /\ body_raises(event.data)) => http = Response(500, FALSE) /\ sends = << >>

\* a send-pairing request with an empty pairing code was answered 400
C12_Witness ==
    /\ BridgeCall("send-pairing")
    /\ "pairing_code" \in DOMAIN event.data /\ event.data.pairing_code = ""
    /\ http = Response(400, FALSE)
    /\ sends = << >>

\* C13: every bridge call makes a bounded number of delivery attempts:
\* deliver-pairing-code exactly one, with no fallback, answering
\* success=false if it fails; deliver-message at most two; deliver-qr at most
\* one text fallback, after its primary path.
C13_BoundedAttempts ==
    /\ Delivery("send-pairing") =>
          /\ Len(sends) = 1 /\ sends[1].kind = "pairing_code"
          /\ http = Response(200, sends[1].ok)
    /\ Delivery("send-message") => Len(sends) <= 2
    /\ Delivery("send-qr") =>
          /\ Len(sends) <= 3
          /\ \A i \in DOMAIN sends : sends[i].kind = "qr_text_fallback" => i = Len(sends)
    /\ ~IsBridge => sends = << >>

\* a pairing code whose only send failed was answered success=false
C13_Witness ==
    /\ Delivery("send-pairing")
    /\ Len(sends) = 1 /\ ~sends[1].ok
    /\ http = Response(200, FALSE)

-----------------------------------------------------------------------------
\* Router vocabulary.

\* the latest event went through the router (a text message or a command)
IsChatEvent == IsText \/ IsCommand

\* the access check of the latest event answered hasAccess=true
AccessGranted ==
    /\ calls # << >> /\ calls[1].op = "auth/access"
    /\ "hasAccess" \in DOMAIN calls[1].ret /\ calls[1].ret.hasAccess

\* the replies that announce a backend call before it is made
ProgressNotices ==
    { "code_validating", "pairing_generating", "trial_starting", "code_generating",
      "qr_generating" }

\* the templates of the replies of the latest event, in order
Templates == [i \in DOMAIN replies |-> replies[i].tpl]

\* C14 as claimed: each router handler performs at most one outbound HTTP
\* call to the backend per inbound chat event.
C14_AtMostOneCall == IsChatEvent => Len(calls) <= 1

\* C14 as amended: each router handler calls each backend operation at most
\* once per inbound chat event and makes at most three calls in all; a second
\* call is made only after an access check that answered hasAccess=true
\* (status, WhatsApp-settings screen, QR connect), and a third only by QR
\* connect (access check, session lookup, session creation).
C14_EachOperationAtMostOnce ==
    IsChatEvent =>
        /\ Len(calls) <= 3
        /\ \A i, j \in DOMAIN calls : calls[i].op = calls[j].op => i = j
        /\ Len(calls) >= 2 => AccessGranted
        /\ Len(calls) = 3 =>
              /\ Ran("connect_whatsapp_qr")
              /\ calls[2].op = "sessions/user" /\ calls[3].op = "sessions/create"

\* status made its access check and then its session lookup
C14_Witness ==
    /\ IsChatEvent /\ Ran("status")
    /\ Len(calls) = 2 /\ calls[2].op = "sessions/user"

\* C15 as claimed: each router handler that ran to its end renders exactly
\* one reply message per inbound chat event, plus one image for QR flows.
C15_ExactlyOneReply ==
    (IsChatEvent /\ path # << "handle_message" >> /\ ~raised) =>
        \/ Len(replies) = 1
        \/ Len(replies) = 2 /\ replies[2].tpl = "qr_photo"

\* C15 as amended: each router handler renders at most one outcome reply per
\* inbound chat event, preceded by one progress notice in the handlers that
\* announce their backend call (code processor, phone processor, trial start,
\* admin code generation, QR connect); the outcome of a QR connect is the
\* instructions followed by one image; no reply at all is rendered only for
\* a dropped text, a users-list request of a non-admin, or a handler that
\* raised.
C15_NoticeThenOneOutcome ==
    IsChatEvent =>
        /\ Len(replies) <= 3
        /\ \A i \in DOMAIN replies : (replies[i].tpl \in ProgressNotices) => i = 1
        /\ Len(replies) >= 2 => replies[1].tpl \in ProgressNotices
        /\ Len(replies) = 3 => Templates = << "qr_generating", "qr_instructions", "qr_photo" >>
        /\ (\E i \in DOMAIN replies : replies[i].tpl = "qr_photo") => Len(replies) = 3
        /\ replies = << >> =>
              raised \/ path = << "handle_message" >> \/ Ran("show_users")

\* the code processor announced the validation and then gave its outcome
C15_Witness ==
    /\ IsChatEvent /\ Ran("process_access_code")
    /\ Templates = << "code_validating", "code_invalid" >>

-----------------------------------------------------------------------------
\* Flag vocabulary.

\* chat c holds no pending-input flag
Idle(c) == ~user_data[c].waiting_for_code /\ ~user_data[c].waiting_for_phone

\* a backend call of the latest event found the backend unreachable
BackendUnreachable == \E i \in DOMAIN calls : calls[i].exc

\* C16: whenever a backend call made by a router handler fails because the
\* backend is unreachable, the user receives the generic "server not
\* responding" reply, the sender holds no pending-input flag afterwards and
\* the call is not repeated.
C16_UnreachableSaysServerDown ==
    (IsChatEvent /\ BackendUnreachable) =>
        /\ Replied("server_not_responding")
        /\ Idle(Sender)
        /\ \A i, j \in DOMAIN calls : calls[i].op = calls[j].op => i = j

\* C17: awaiting-phone becomes set only by the pairing-connect action of
\* that chat, and only when the access check of that action answered
\* hasAccess=true; on hasAccess=false pairing connect leaves the flags
\* unchanged and sends a denial; awaiting-code becomes set only by the
\* use-code action of that chat.
C17_FlagsSetOnlyByTheirAction ==
    [][\A c \in Chats :
         /\ (~user_data[c].waiting_for_phone /\ user_data'[c].waiting_for_phone) =>
               /\ IsChatEvent' /\ Sender' = c
               /\ Ran("connect_whatsapp_pairing")' /\ Ran("ask_phone_number")'
               /\ AccessGranted'
         /\ (~user_data[c].waiting_for_code /\ user_data'[c].waiting_for_code) =>
               /\ IsChatEvent' /\ Sender' = c
               /\ Ran("use_code")'
         /\ (IsChatEvent' /\ Sender' = c /\ Ran("connect_whatsapp_pairing")'
               /\ ~AccessGranted' /\ ~raised') =>
               /\ user_data'[c] = user_data[c]
               /\ replies' = << Reply("access_denied", NoArg) >>]_vars

\* pairing connect passed its access check and set awaiting-phone
C17_Witness ==
    /\ IsChatEvent /\ Ran("connect_whatsapp_pairing") /\ Ran("ask_phone_number")
    /\ AccessGranted
    /\ user_data[Sender].waiting_for_phone

\* C18: the upgrade action performed by an admin moves that chat from idle
\* to a pending state that awaits the confirmation: after it the chat is no
\* longer idle.
C18_UpgradeAwaitsConfirmation ==
    [][\A c \in ADMIN_IDS :
         (/\ user_data[c] = NoFlags
          /\ IsChatEvent' /\ Sender' = c
          /\ Ran("upgrade_bot")')
         => user_data'[c] # NoFlags]_vars

\* C19: a text message that matches no caption, sent by a chat with no
\* pending-input flag set, is dropped: no handler runs, no reply, no backend
\* call, and no flag of any chat changes.
C19_UnmatchedTextDropped ==
    [][\A c \in Chats :
         (/\ Idle(c)
          /\ IsText' /\ Sender' = c
          /\ Typed' \notin Captions)
         => /\ path' = << "handle_message" >>
            /\ replies' = << >>
            /\ calls' = << >>
            /\ ~raised'
            /\ user_data' = user_data]_vars

\* an idle chat sent a greeting and nothing happened
C19_Witness ==
    /\ IsText /\ Typed = << "h", "i" >>
    /\ Idle(Sender)
    /\ path = << "handle_message" >> /\ replies = << >> /\ calls = << >>

\* the fixed payload of a settings-toggle caption
TogglePayload(text) ==
    IF text = BtnActiverSilencieux THEN [silent_mode |-> TRUE]
    ELSE IF text = BtnDesactiverSilencieux THEN [silent_mode |-> FALSE]
    ELSE IF text = BtnActiverPrive THEN [private_mode |-> TRUE, allowed_users |-> << "all" >>]
    ELSE [private_mode |-> FALSE, allowed_users |-> << >>]

\* C20: the settings-update handler sends, for each toggle caption, exactly
\* its fixed payload in one settings-update call (silent on/off, private on
\* with allowed_users ['all'], private off with allowed_users []); for the
\* access-management caption it sends instructions and makes no backend call.
C20_ToggleSendsFixedPayload ==
    (IsText /\ Ran("handle_whatsapp_settings")) =>
        IF Typed = BtnGererAcces
        THEN calls = << >> /\ replies = << Reply("access_management", NoArg) >>
        ELSE /\ Typed \in SettingsCaptions
             /\ Len(calls) = 1
             /\ calls[1].op = "POST whatsapp-settings"
             /\ calls[1].chat = Sender
             /\ calls[1].arg = TogglePayload(Typed)
             /\ Len(replies) = 1

\* "private off" sent private_mode false with an empty allow-list
C20_Witness ==
    /\ IsText /\ Ran("handle_whatsapp_settings")
    /\ Typed = BtnDesactiverPrive
    /\ Len(calls) = 1
    /\ calls[1].arg = [private_mode |-> FALSE, allowed_users |-> << >>]

-----------------------------------------------------------------------------
\* Phone numbers as the specification normalises them.

\* the trimmed text without its leading +, if it has one
WithoutLeadingPlus(s) ==
    IF strip(s) # << >> /\ Head(strip(s)) = "+" THEN Tail(strip(s)) ELSE strip(s)

\* what is left after removing a leading + and all spaces and hyphens
Remainder(s) == SelectSeq(WithoutLeadingPlus(s), LAMBDA c : c \notin { " ", "-" })

\* the remainder is all digits and has 8 to 15 of them
AcceptablePhone(s) ==
    /\ Len(Remainder(s)) \in 8..15
    /\ \A i \in DOMAIN Remainder(s) : Remainder(s)[i] \in AsciiDigits

\* C21: the phone processor accepts an input exactly when, after removing a
\* leading + and all spaces and hyphens, the remainder is all digits with a
\* length in 8..15; the number forwarded to the backend is that remainder;
\* every other input (one with a + in a non-leading position included) is
\* rejected locally.
C21_AcceptsExactlyAcceptablePhones ==
    (IsText /\ Ran("process_phone_number")) =>
        IF AcceptablePhone(Typed)
        THEN /\ Len(CallsOf("sessions/create-with-phone")) = 1
             /\ calls[1].arg = Remainder(Typed)
        ELSE /\ calls = << >>
             /\ replies = << Reply("phone_invalid", NoArg) >>

\* C22: no router handler ends in an unhandled failure, whatever the backend
\* answers (success, refusal, unreachable, a JSON answer lacking fields).
C22_NoHandlerRaises == IsChatEvent => ~raised

\* a typed phone number the length-and-digits test turns down: after removing
\* every +, space and hyphen it has fewer than 8 or more than 15 characters,
\* or a character that is no digit of any script
BadPhone(s) ==
    \/ Len(Normalised(s)) \notin 8..15
    \/ \E i \in DOMAIN Normalised(s) : Normalised(s)[i] \notin DigitChars

\* C23: a format-rejected access code or phone number leaves the flag that
\* routed it set and every other flag unchanged, issues no backend call and
\* sends one re-prompt reply; since nothing changes, the next invalid input
\* is treated the same, without any limit.
C23_RejectionKeepsFlag ==
    [][/\ (IsText' /\ Ran("process_access_code")' /\ ~WellFormedCode(upper(strip(Typed')))) =>
            /\ user_data' = user_data
            /\ user_data'[Sender'].waiting_for_code
            /\ calls' = << >>
            /\ replies' = << Reply("code_format_error", NoArg) >>
       /\ (IsText' /\ Ran("process_phone_number")' /\ BadPhone(Typed')) =>
            /\ user_data' = user_data
            /\ user_data'[Sender'].waiting_for_phone
            /\ calls' = << >>
            /\ replies' = << Reply("phone_invalid", NoArg) >>]_vars

\* a phone number was turned down and the chat still awaits one
C23_Witness ==
    /\ IsText /\ Ran("process_phone_number") /\ BadPhone(Typed)
    /\ replies = << Reply("phone_invalid", NoArg) >>
    /\ user_data[Sender].waiting_for_phone

\* a send of the given kind was attempted for the latest event
Attempted(kind) == \E i \in DOMAIN sends : sends[i].kind = kind

\* one of the two primary sends of deliver-qr failed
PrimarySendFailed ==
    \E i \in DOMAIN sends : sends[i].kind \in { "qr_instructions", "qr_photo" } /\ ~sends[i].ok

\* C24: in deliver-qr the instructional text is sent before the image, the
\* image is attempted only if the instructional text was sent successfully,
\* the text fallback is attempted only after a failure of the image
\* generation or of one of those two sends, and success=false is answered
\* only when the fallback send failed too.
C24_InstructionsImageThenFallback ==
    Delivery("send-qr") =>
        /\ \A i, j \in DOMAIN sends :
              (sends[i].kind = "qr_instructions" /\ sends[j].kind = "qr_photo") => i < j
        /\ Attempted("qr_photo") =>
              \E i \in DOMAIN sends : sends[i].kind = "qr_instructions" /\ sends[i].ok
        /\ Attempted("qr_text_fallback") <=>
              (~Renders(event.data.qr_code) \/ PrimarySendFailed)
        /\ ~Renders(event.data.qr_code) => ~Attempted("qr_instructions")
        /\ ~http.success <=>
              (Attempted("qr_text_fallback") /\ ~sends[Len(sends)].ok)

\* the instructions went out, the image did not, the fallback did
C24_Witness ==
    /\ Delivery("send-qr")
    /\ Len(sends) = 3
    /\ sends[1].ok /\ ~sends[2].ok /\ sends[3].ok
    /\ sends[3].kind = "qr_text_fallback"
    /\ http.success

\* C25: a settings-update call is issued only if an access check made while
\* handling the same message answered hasAccess=true.
C25_TogglesGatedByAccess ==
    (IsChatEvent /\ CallsOf("POST whatsapp-settings") # << >>) => AccessGranted

\* the operations of the backend calls of the latest event, in order
Operations == [i \in DOMAIN calls |-> calls[i].op]

\* a session lookup answered with a session whose status is 'connected'
ReportsConnected(ret) == ret # None /\ "status" \in DOMAIN ret /\ ret.status = "connected"

\* C26: in the QR connect handler a persistent session-create call is issued
\* only after the access check answered hasAccess=true and the session
\* lookup did not report status 'connected', the calls being in the order
\* access check, session lookup, session create; a denial or an
\* already-active reply ends the handler with no create call.
C26_CreateAfterAccessAndLookup ==
    (IsChatEvent /\ Ran("connect_whatsapp_qr")) =>
        /\ CallsOf("sessions/create") # << >> =>
              /\ Operations = << "auth/access", "sessions/user", "sessions/create" >>
              /\ AccessGranted
              /\ ~ReportsConnected(calls[2].ret)
              /\ calls[3].arg.persistent
        /\ (Replied("access_denied") \/ Replied("session_already_active")) =>
              /\ CallsOf("sessions/create") = << >>
              /\ Len(replies) = 1

\* QR connect created a session after a granted access check and a lookup
\* that found the session disconnected
C26_Witness ==
    /\ IsChatEvent /\ Ran("connect_whatsapp_qr")
    /\ Operations = << "auth/access", "sessions/user", "sessions/create" >>
    /\ calls[2].ret # None /\ "status" \in DOMAIN calls[2].ret
    /\ calls[2].ret.status = "disconnected"

\* C30: no bridge operation (send-message, send-qr, send-pairing, health)
\* changes any chat's pending-input flags or issues a backend call: a step
\* that handles a bridge request leaves user_data as it was and makes no
\* call, so the flags and calls of the router are those of the chat events
\* alone.
C30_BridgeLeavesRouterAlone ==
    [][IsBridge' => (user_data' = user_data /\ calls' = << >> /\ replies' = << >>)]_vars

\* a bridge request was handled, with a delivery attempt or as a health
\* probe, while a chat was awaiting input, and the chat still is
C30_Witness ==
    /\ IsBridge
    /\ event.op = "health" \/ sends # << >>
    /\ \E c \in Chats : ~Idle(c)

\* C27: every create-with-phone backend call for a user is issued while
\* awaiting-phone is set for that user and after an earlier event of that
\* user whose access check answered hasAccess=true; the event that issues it
\* makes that one call and no access check.
C27_PhoneCallAfterGrant ==
    [][(IsChatEvent' /\ CallsOf("sessions/create-with-phone")' # << >>) =>
          /\ Sender' \in granted
          /\ user_data[Sender'].waiting_for_phone
          /\ Operations' = << "sessions/create-with-phone" >>
          /\ Ran("process_phone_number")']_vars

\* a chat that was granted access and asked for its number has typed it and
\* the create-with-phone call was made
C27_Witness ==
    /\ IsText /\ Ran("process_phone_number")
    /\ Operations = << "sessions/create-with-phone" >>
    /\ Sender \in granted

\* C28: at start-up, whenever the bot has advertised its webhook URL to the
\* backend the bridge listener is already started, and the registration is
\* attempted only after a health check that answered 200 with status
\* 'healthy'.
C28_AdvertisedOnlyWhenListening ==
    /\ boot.advertised => boot.listening
    /\ (boot.pc = "register_bot" \/ boot.advertised) => boot.connected

\* the position of the first message of template tpl chat c received
First(c, tpl) == CHOOSE i \in DOMAIN delivered[c] : delivered[c][i] = tpl

Received(c, tpl) == \E i \in DOMAIN delivered[c] : delivered[c][i] = tpl

\* C29: in one pairing flow the router's acknowledgement ("code generated,
\* you will receive it in a few seconds") reaches the chat before the bridge
\* delivers the pairing code of that flow to the same chat, whatever the
\* interleaving of the phone processor with the send-pairing request.
C29_AckBeforeCode ==
    \A c \in Chats :
        (Received(c, "pairing_code") /\ Received(c, "pairing_code_coming")) =>
            First(c, "pairing_code_coming") < First(c, "pairing_code")

====
